---- MODULE Spec2Model ----
(***************************************************************************)
(* Face-matching and liveness pipeline of faceattend-ke, with the request  *)
(* handlers that sequence it (enroll, recognize, consent, mark).           *)
(*                                                                         *)
(* Numbers: distances, tolerances, confidences and skin ratios are fixed   *)
(* point in hundredths (0.6 is 60).  A face encoding is a vector; the      *)
(* model uses vectors of dimension 1, <<x>>, so that the Euclidean norm    *)
(* of a difference is an absolute value.  Python's None is the empty       *)
(* tuple << >>, and an optional value v that is present is <<v>> where the *)
(* value itself is not already a tuple or a record.                        *)
(***************************************************************************)
EXTENDS Integers, Sequences, FiniteSets, TLC

VARIABLES
    consent_given,      \* User.consent_given, by user id
    face_encoding,      \* User.face_encoding, by user id (None or a vector)
    face_enrolled_at,   \* User.face_enrolled_at, by user id (None or <<day>>)
    is_active,          \* User.is_active, by user id
    courses,            \* codes of the rows of the courses table
    attendance,         \* rows of the attendance table, in insertion order
    inflight,           \* requests that passed their checks and have not committed
    today,              \* the calendar day datetime.utcnow().date() returns
    last                \* the most recent direct call of the engine or of the
                        \* liveness checker, with its inputs and its result

vars == <<consent_given, face_encoding, face_enrolled_at, is_active, courses,
          attendance, inflight, today, last>>

None == << >>

Abs(x) == IF x < 0 THEN -x ELSE x

(***************************************************************************)
(* Bounds of the model                                                     *)
(***************************************************************************)
MaxRecords == 2
MaxInflight == 1
MaxDay == 1
MaxFaces == 2

(***************************************************************************)
(* Configuration (config.py) and defaults                                  *)
(***************************************************************************)
FACE_TOLERANCE == 60
MAX_IMAGE_SIZE_MB == 5
MinFaceSize == 80
BlurThreshold == 100
SkinLow == 15
SkinHigh == 60
LivenessPass == 70
DefaultConfidence == 95

Users == {1, 2}
UnitCodes == {"CS301", "BIT210"}

(***************************************************************************)
(* FaceEngine (face/engine.py)                                             *)
(***************************************************************************)

\* Python truthiness of an optional number: None and 0 are falsy.
Truthy(opt) == opt # None /\ opt[1] # 0

\* FaceEngine.__init__: self.tolerance = tolerance or Config.FACE_TOLERANCE
FaceEngine_init(tolerance) ==
    IF Truthy(tolerance) THEN tolerance[1] ELSE FACE_TOLERANCE

\* face_engine = FaceEngine()   (face/routes.py)
self_tolerance == FaceEngine_init(None)

face_distance_signed(known_encoding, unknown_encoding) ==
    known_encoding[1] - unknown_encoding[1]

\* face_recognition.face_distance([known], unknown)[0]: the Euclidean norm of
\* known - unknown
face_distance(known_encoding, unknown_encoding) ==
    Abs(known_encoding[1] - unknown_encoding[1])

compare_faces_exclusive(known_encoding, unknown_encoding, tolerance) ==
    LET tol == IF tolerance # None THEN tolerance[1] ELSE self_tolerance
        distance == face_distance(known_encoding, unknown_encoding)
    IN  [match |-> distance < tol,
         confidence |-> 100 - distance,
         distance |-> distance]

\* FaceEngine.compare_faces; face_recognition.compare_faces is
\* face_distance(...) <= tolerance
compare_faces(known_encoding, unknown_encoding, tolerance) ==
    LET tol == IF Truthy(tolerance) THEN tolerance[1] ELSE self_tolerance
        distance == face_distance(known_encoding, unknown_encoding)
    IN  [match |-> distance <= tol,
         confidence |-> 100 - distance,
         distance |-> distance]

\* FaceEngine.detect_faces: the boxes (top, right, bottom, left) the detector
\* finds, in the detector's order
detect_faces(image) == [i \in 1..Len(image.faces) |-> image.faces[i].box]

validate_image_quality_strict(image, min_face_size) ==
    LET faces == detect_faces(image)
    IN  IF Len(faces) = 0
        THEN [valid |-> FALSE, error |-> "No face detected",
              face_location |-> None, dimensions |-> None]
        ELSE IF Len(faces) > 1
        THEN [valid |-> FALSE, error |-> "Multiple faces detected",
              face_location |-> None, dimensions |-> None]
        ELSE LET top == faces[1][1]
                 right == faces[1][2]
                 bottom == faces[1][3]
                 left == faces[1][4]
                 face_width == right - left
                 face_height == bottom - top
             IN  IF face_width <= min_face_size \/ face_height <= min_face_size
                 THEN [valid |-> FALSE, error |-> "Face too small",
                       face_location |-> None, dimensions |-> None]
                 ELSE [valid |-> TRUE, error |-> "",
                       face_location |-> faces[1],
                       dimensions |-> [width |-> face_width,
                                       height |-> face_height]]

validate_image_quality_nocount(image, min_face_size) ==
    LET faces == detect_faces(image)
    IN  IF Len(faces) = 0
        THEN [valid |-> FALSE, error |-> "No face detected",
              face_location |-> None, dimensions |-> None]
        ELSE LET top == faces[1][1]
                 right == faces[1][2]
                 bottom == faces[1][3]
                 left == faces[1][4]
                 face_width == right - left
                 face_height == bottom - top
             IN  IF face_width < min_face_size \/ face_height < min_face_size
                 THEN [valid |-> FALSE, error |-> "Face too small",
                       face_location |-> None, dimensions |-> None]
                 ELSE IF Len(faces) > 1
                 THEN [valid |-> FALSE, error |-> "Multiple faces detected",
                       face_location |-> None, dimensions |-> None]
                 ELSE [valid |-> TRUE, error |-> "",
                       face_location |-> faces[1],
                       dimensions |-> [width |-> face_width,
                                       height |-> face_height]]

\* FaceEngine.validate_image_quality
validate_image_quality(image, min_face_size) ==
    LET faces == detect_faces(image)
    IN  IF Len(faces) = 0
        THEN [valid |-> FALSE, error |-> "No face detected",
              face_location |-> None, dimensions |-> None]
        ELSE IF Len(faces) > 1
        THEN [valid |-> FALSE, error |-> "Multiple faces detected",
              face_location |-> None, dimensions |-> None]
        ELSE LET top == faces[1][1]
                 right == faces[1][2]
                 bottom == faces[1][3]
                 left == faces[1][4]
                 face_width == right - left
                 face_height == bottom - top
             IN  IF face_width < min_face_size \/ face_height < min_face_size
                 THEN [valid |-> FALSE, error |-> "Face too small",
                       face_location |-> None, dimensions |-> None]
                 ELSE [valid |-> TRUE, error |-> "",
                       face_location |-> faces[1],
                       dimensions |-> [width |-> face_width,
                                       height |-> face_height]]

\* face_recognition.face_encodings(image, known_face_locations): one encoding
\* per location; with no locations given the faces are detected first.  The
\* encoder may produce nothing (image.encoder_ok = FALSE).
face_encodings(image, known_face_locations) ==
    IF ~image.encoder_ok THEN << >>
    ELSE IF known_face_locations = None
    THEN [i \in 1..Len(image.faces) |-> image.faces[i].enc]
    ELSE [i \in 1..Len(known_face_locations) |->
            LET hit == {j \in 1..Len(image.faces) :
                          image.faces[j].box = known_face_locations[i]}
            IN  image.faces[CHOOSE j \in hit : \A k \in hit : j <= k].enc]

\* FaceEngine.encode_face: encodings[0] if encodings else None
encode_face(image, face_location) ==
    LET encodings == face_encodings(image,
                        IF face_location # None THEN <<face_location>> ELSE None)
    IN  IF Len(encodings) > 0 THEN encodings[1] ELSE None

\* Whether the name ExifTags is bound where line 92 reads it: line 90 is
\* "from PIL.ExifTags import TAGS, GPSTAGS" and the module imports only Image
\* from PIL, so it is not.
ExifTagsBound == FALSE

\* img.rotate(degrees, expand=True)
rotate(img, degrees) == [img EXCEPT !.rotation = (img.rotation + degrees) % 360]

\* FaceEngine.preprocess_image, lines 90-104: the orientation block.  Reading
\* ExifTags raises NameError, which the bare except swallows.
auto_orient(img) ==
    IF ~ExifTagsBound THEN img
    ELSE IF img.exif = None THEN img
    ELSE IF img.exif[1] = 3 THEN rotate(img, 180)
    ELSE IF img.exif[1] = 6 THEN rotate(img, 270)
    ELSE IF img.exif[1] = 8 THEN rotate(img, 90)
    ELSE img

preprocess_image_decode_first(image_bytes, max_size_mb) ==
    IF ~image_bytes.decodable
    THEN [image |-> None, error |-> <<"Image processing error">>,
          opened |-> TRUE]
    ELSE IF image_bytes.len > max_size_mb * 1024 * 1024
    THEN [image |-> None, error |-> <<"Image too large">>, opened |-> TRUE]
    ELSE [image |-> [auto_orient(image_bytes) EXCEPT !.exif = None],
          error |-> None, opened |-> TRUE]

\* FaceEngine.preprocess_image.  opened tells whether Image.open was called;
\* the image returned is the one saved as JPEG at line 108, without metadata.
preprocess_image(image_bytes, max_size_mb) ==
    IF image_bytes.len > max_size_mb * 1024 * 1024
    THEN [image |-> None, error |-> <<"Image too large">>, opened |-> FALSE]
    ELSE IF ~image_bytes.decodable
    THEN [image |-> None, error |-> <<"Image processing error">>,
          opened |-> TRUE]
    ELSE [image |-> [auto_orient(image_bytes) EXCEPT !.exif = None],
          error |-> None, opened |-> TRUE]

(***************************************************************************)
(* LivenessChecker (face/liveness.py)                                      *)
(*                                                                         *)
(* An image carries what the OpenCV calls compute from it: blur (variance  *)
(* of the Laplacian), skin (percentage of pixels in the skin range), eyes  *)
(* (regions the eye cascade finds in the face crop), and exc, the place    *)
(* where a library call raises for this image ("none" when none does).     *)
(***************************************************************************)
Raised(site) == [raised |-> TRUE, error |-> site]

check_blur_inclusive(image_array, threshold) ==
    [passed |-> image_array.blur >= threshold, score |-> image_array.blur]

\* LivenessChecker.check_blur: fm > threshold
check_blur(image_array, threshold) ==
    [passed |-> image_array.blur > threshold, score |-> image_array.blur]

check_color_distribution_inclusive(image_array) ==
    [passed |-> SkinLow <= image_array.skin /\ image_array.skin <= SkinHigh,
     score |-> image_array.skin]

\* LivenessChecker.check_color_distribution: 0.15 < skin_ratio < 0.60
check_color_distribution(image_array) ==
    [passed |-> SkinLow < image_array.skin /\ image_array.skin < SkinHigh,
     score |-> image_array.skin]

detect_eyes_no_fallback(image_array, face_location) ==
    IF image_array.exc \in {"crop", "cascade"} THEN Raised(image_array.exc)
    ELSE [raised |-> FALSE, passed |-> image_array.eyes >= 2,
          score |-> image_array.eyes]

\* LivenessChecker.detect_eyes: the crop and the grayscale conversion are
\* outside the try; a failure of the cascade is the fallback (True, 2)
detect_eyes(image_array, face_location) ==
    IF image_array.exc = "crop" THEN Raised("crop")
    ELSE IF image_array.exc = "cascade"
    THEN [raised |-> FALSE, passed |-> TRUE, score |-> 2]
    ELSE [raised |-> FALSE, passed |-> image_array.eyes >= 2,
          score |-> image_array.eyes]

AtLeastPass_half(num, den) == num * 100 >= 50 * den

AtLeastPass_low(num, den) == num * 100 >= 60 * den

\* confidence >= 0.7, for confidence = num / den
AtLeastPass(num, den) == num * 100 >= LivenessPass * den

verify_try_eyes_always(image_bytes, face_location) ==
    IF image_bytes.exc \in {"open", "blur", "color"}
    THEN Raised(image_bytes.exc)
    ELSE
    LET img_array == image_bytes
        blur == check_blur(img_array, BlurThreshold)
        color == check_color_distribution(img_array)
        with_eyes == TRUE
        eyes == IF with_eyes THEN detect_eyes(img_array, face_location)
                ELSE [raised |-> FALSE, passed |-> FALSE, score |-> 0]
    IN  IF eyes.raised THEN Raised(eyes.error)
        ELSE
        LET total == 1 + 1 + (IF with_eyes THEN 1 ELSE 0)
            passed == (IF blur.passed THEN 1 ELSE 0)
                      + (IF color.passed THEN 1 ELSE 0)
                      + (IF with_eyes /\ eyes.passed THEN 1 ELSE 0)
            results == [k \in {"blur", "color_distribution"}
                              \cup (IF with_eyes THEN {"eyes_detected"} ELSE {}) |->
                          IF k = "blur" THEN blur
                          ELSE IF k = "color_distribution" THEN color
                          ELSE [passed |-> eyes.passed, score |-> eyes.score]]
        IN  [raised |-> FALSE,
             liveness_verified |-> AtLeastPass(passed, total),
             confidence |-> [num |-> passed, den |-> total],
             checks |-> results,
             details |-> <<passed, total>>,
             error |-> None]

\* The body of the try block of LivenessChecker.verify: the result, or the
\* exception that leaves the block
verify_try(image_bytes, face_location) ==
    IF image_bytes.exc \in {"open", "blur", "color"}
    THEN Raised(image_bytes.exc)
    ELSE
    LET img_array == image_bytes
        blur == check_blur(img_array, BlurThreshold)
        color == check_color_distribution(img_array)
        with_eyes == face_location # None
        eyes == IF with_eyes THEN detect_eyes(img_array, face_location)
                ELSE [raised |-> FALSE, passed |-> FALSE, score |-> 0]
    IN  IF eyes.raised THEN Raised(eyes.error)
        ELSE
        LET total == 1 + 1 + (IF with_eyes THEN 1 ELSE 0)
            passed == (IF blur.passed THEN 1 ELSE 0)
                      + (IF color.passed THEN 1 ELSE 0)
                      + (IF with_eyes /\ eyes.passed THEN 1 ELSE 0)
            results == [k \in {"blur", "color_distribution"}
                              \cup (IF with_eyes THEN {"eyes_detected"} ELSE {}) |->
                          IF k = "blur" THEN blur
                          ELSE IF k = "color_distribution" THEN color
                          ELSE [passed |-> eyes.passed, score |-> eyes.score]]
        IN  [raised |-> FALSE,
             liveness_verified |-> AtLeastPass(passed, total),
             confidence |-> [num |-> passed, den |-> total],
             checks |-> results,
             details |-> <<passed, total>>,
             error |-> None]

verify_unguarded(image_bytes, face_location) ==
    LET r == verify_try(image_bytes, face_location)
    IN  IF r.raised
        THEN [raised |-> TRUE, liveness_verified |-> FALSE,
              confidence |-> [num |-> 0, den |-> 1], checks |-> None,
              details |-> None, error |-> <<r.error>>]
        ELSE r

\* LivenessChecker.verify: try ... except Exception as e
verify(image_bytes, face_location) ==
    LET r == verify_try(image_bytes, face_location)
    IN  IF r.raised
        THEN [raised |-> FALSE, liveness_verified |-> FALSE,
              confidence |-> [num |-> 0, den |-> 1], checks |-> None,
              details |-> None, error |-> <<r.error>>]
        ELSE r

(***************************************************************************)
(* Inputs                                                                  *)
(***************************************************************************)
MaxBytes == MAX_IMAGE_SIZE_MB * 1024 * 1024

\* An upload that passes every stage; the sets below vary it.
GoodImage ==
    [len |-> 1000, decodable |-> TRUE, jpeg_len |-> 1000, exif |-> None,
     rotation |-> 0, faces |-> << >>, encoder_ok |-> TRUE,
     blur |-> 150, skin |-> 30, eyes |-> 2, exc |-> "none"]

\* Boxes (top, right, bottom, left) of width 79, 80, 81, 150 and height 79, 80, 150
Boxes == {<<10, r, b, 10>> : r \in {89, 90, 91, 160}, b \in {89, 90, 160}}
GoodBox == <<10, 160, 160, 10>>

Encodings == {<<0>>, <<30>>, <<50>>, <<110>>}
Tolerances == {None, <<0>>, <<40>>, <<60>>, <<120>>}

SeqsUpTo(S, n) == UNION {[1..k -> S] : k \in 0..n}

QualityImages ==
    {[GoodImage EXCEPT !.faces = f] :
        f \in SeqsUpTo([box : Boxes, enc : {<<0>>}], MaxFaces)}

LivenessImages ==
    {[GoodImage EXCEPT !.blur = b, !.skin = s, !.eyes = e, !.exc = x] :
        b \in {50, 100, 101}, s \in {10, 15, 30, 60, 70}, e \in 0..3,
        x \in {"none", "open", "blur", "color", "crop", "cascade"}}

\* Uploads of a length below, at and above the cap of 1 MB and of 5 MB,
\* readable or not, with each orientation tag the code looks at
PreprocessImages ==
    {[GoodImage EXCEPT !.len = n, !.decodable = d, !.exif = x] :
        n \in {1000, 1024 * 1024, 1024 * 1024 + 1, MaxBytes, MaxBytes + 1,
               6 * 1024 * 1024},
        d \in BOOLEAN, x \in {None, <<1>>, <<3>>, <<6>>, <<8>>}}

(***************************************************************************)
(* Calls of the engine and of the liveness checker on their own            *)
(***************************************************************************)
DbUnchanged ==
    UNCHANGED <<consent_given, face_encoding, face_enrolled_at, is_active,
                courses, attendance, inflight, today>>

CompareFaces ==
    \E known \in Encodings, unknown \in Encodings, tolerance \in Tolerances :
        /\ last' = [op |-> "compare_faces",
                    in |-> [known |-> known, unknown |-> unknown,
                            tolerance |-> tolerance],
                    out |-> compare_faces(known, unknown, tolerance)]
        /\ DbUnchanged

CheckBlur ==
    \E image \in LivenessImages, threshold \in {50, BlurThreshold} :
        /\ image.exc = "none"
        /\ last' = [op |-> "check_blur",
                    in |-> [image |-> image, threshold |-> threshold],
                    out |-> check_blur(image, threshold)]
        /\ DbUnchanged

CheckColorDistribution ==
    \E image \in LivenessImages :
        /\ image.exc = "none"
        /\ last' = [op |-> "check_color_distribution",
                    in |-> [image |-> image],
                    out |-> check_color_distribution(image)]
        /\ DbUnchanged

PreprocessImage ==
    \E image_bytes \in PreprocessImages, max_size_mb \in {1, MAX_IMAGE_SIZE_MB} :
        /\ last' = [op |-> "preprocess_image",
                    in |-> [image_bytes |-> image_bytes,
                            max_size_mb |-> max_size_mb],
                    out |-> preprocess_image(image_bytes, max_size_mb)]
        /\ DbUnchanged

ValidateImageQuality ==
    \E image \in QualityImages :
        /\ last' = [op |-> "validate_image_quality",
                    in |-> [image |-> image, min_face_size |-> MinFaceSize],
                    out |-> validate_image_quality(image, MinFaceSize)]
        /\ DbUnchanged

Verify ==
    \E image \in LivenessImages, face_location \in {None, GoodBox} :
        /\ last' = [op |-> "verify",
                    in |-> [image |-> image, face_location |-> face_location],
                    out |-> verify(image, face_location)]
        /\ DbUnchanged

Init ==
    /\ consent_given = [u \in Users |-> TRUE]
    /\ face_encoding = [u \in Users |-> None]
    /\ face_enrolled_at = [u \in Users |-> None]
    /\ is_active = [u \in Users |-> TRUE]
    /\ courses = {"CS301"}
    /\ attendance = << >>
    /\ inflight = {}
    /\ today = 0
    /\ last = [op |-> "init", in |-> None, out |-> None]

EngineNext ==
    \/ CompareFaces
    \/ CheckBlur
    \/ CheckColorDistribution
    \/ PreprocessImage
    \/ ValidateImageQuality
    \/ Verify

SpecEngine == Init /\ [][EngineNext]_vars

(***************************************************************************)
(* Properties of the engine and the liveness checker (SpecEngine)          *)
(***************************************************************************)

\* C4: compare declares a match exactly when distance <= tolerance, the
\* tolerance being the caller's override whenever one is passed (0 included)
\* and the engine's configured tolerance only when none is passed.
C4_OverrideDecidesMatch ==
    last.op = "compare_faces" =>
        LET tol == IF last.in.tolerance # None THEN last.in.tolerance[1]
                   ELSE FACE_TOLERANCE
        IN  last.out.match <=> (last.out.distance <= tol)

\* C6: the liveness result has confidence = passed checks / checks run, the
\* confidence lies in [0,1], and verified holds exactly when confidence >= 0.7;
\* the error result has confidence 0 and is not verified.
C6_LivenessConfidence ==
    last.op = "verify" =>
        LET r == last.out
            c == r.confidence
        IN  /\ c.den > 0 /\ 0 <= c.num /\ c.num <= c.den
            /\ r.liveness_verified <=> (10 * c.num >= 7 * c.den)
            /\ r.error = None =>
                 /\ c.den = Cardinality(DOMAIN r.checks)
                 /\ c.num = Cardinality({k \in DOMAIN r.checks : r.checks[k].passed})
            /\ r.error # None => c.num = 0 /\ ~r.liveness_verified

C6_Witness ==
    /\ last.op = "verify"
    /\ last.out.error = None
    /\ last.out.confidence = [num |-> 2, den |-> 3]
    /\ ~last.out.liveness_verified

\* C7: an exception raised anywhere during the liveness evaluation (decoding,
\* a check, the crop or grayscale conversion of the eye check) is converted by
\* verify to the deny result; verify never propagates an exception.
C7_VerifyNeverRaises ==
    last.op = "verify" =>
        /\ ~last.out.raised
        /\ (\/ last.in.image.exc \in {"open", "blur", "color"}
            \/ (last.in.image.exc = "crop" /\ last.in.face_location # None))
           => /\ ~last.out.liveness_verified
              /\ last.out.confidence.num = 0
              /\ last.out.error # None

C7_Witness ==
    /\ last.op = "verify"
    /\ last.in.image.exc = "crop"
    /\ last.in.face_location # None
    /\ last.out.error = <<"crop">>
    /\ ~last.out.raised

\* C8: validate_quality answers NoFaceDetected for zero boxes and
\* MultipleFacesDetected for two or more, whatever the sizes of the boxes;
\* FaceTooSmall is reported only for exactly one box whose width or height is
\* below min_face_size.
C8_FaceCountErrors ==
    last.op = "validate_image_quality" =>
        LET faces == last.in.image.faces
            r == last.out
        IN  /\ Len(faces) = 0 => ~r.valid /\ r.error = "No face detected"
            /\ Len(faces) >= 2 => ~r.valid /\ r.error = "Multiple faces detected"
            /\ r.error = "Face too small" =>
                 /\ Len(faces) = 1
                 /\ \/ faces[1].box[2] - faces[1].box[4] < last.in.min_face_size
                    \/ faces[1].box[3] - faces[1].box[1] < last.in.min_face_size

C8_Witness ==
    /\ last.op = "validate_image_quality"
    /\ Len(last.in.image.faces) = 2
    /\ last.in.image.faces[1].box[2] - last.in.image.faces[1].box[4] < MinFaceSize
    /\ last.out.error = "Multiple faces detected"

\* C9: for exactly one box with right - left >= min_face_size and
\* bottom - top >= min_face_size, validate_quality succeeds and returns that box
\* with width = right - left and height = bottom - top (equality is accepted).
C9_AdequateFaceAccepted ==
    last.op = "validate_image_quality" =>
        LET faces == last.in.image.faces
            r == last.out
        IN  (/\ Len(faces) = 1
             /\ faces[1].box[2] - faces[1].box[4] >= last.in.min_face_size
             /\ faces[1].box[3] - faces[1].box[1] >= last.in.min_face_size)
            => /\ r.valid
               /\ r.face_location = faces[1].box
               /\ r.dimensions = [width |-> faces[1].box[2] - faces[1].box[4],
                                  height |-> faces[1].box[3] - faces[1].box[1]]

C9_Witness ==
    /\ last.op = "validate_image_quality"
    /\ Len(last.in.image.faces) = 1
    /\ last.in.image.faces[1].box[2] - last.in.image.faces[1].box[4] = MinFaceSize
    /\ last.in.image.faces[1].box[3] - last.in.image.faces[1].box[1] = MinFaceSize
    /\ last.out.valid

\* C11: preprocess fails with "Image too large" whenever the byte length
\* exceeds max_size_mb * 1024 * 1024, without having tried to decode the bytes;
\* a buffer whose length equals the cap is not rejected as too large.
C11_TooLargeBeforeDecode ==
    last.op = "preprocess_image" =>
        LET cap == last.in.max_size_mb * 1024 * 1024
            n == last.in.image_bytes.len
        IN  /\ n > cap => /\ last.out.error = <<"Image too large">>
                          /\ last.out.image = None
                          /\ ~last.out.opened
            /\ n <= cap => last.out.error # <<"Image too large">>

\* 6 MB of unreadable bytes under the 5 MB cap
C11_Witness ==
    /\ last.op = "preprocess_image"
    /\ last.in.max_size_mb = 5
    /\ last.in.image_bytes.len = 6 * 1024 * 1024
    /\ ~last.in.image_bytes.decodable
    /\ last.out.error = <<"Image too large">>

\* C12: preprocess returns an image whose orientation tag is 3, 6 or 8 rotated
\* by 180, 270 or 90 degrees, and returns an image without readable metadata
\* unrotated and without error.
C12_OrientationCorrected ==
    (last.op = "preprocess_image" /\ last.out.error = None) =>
        LET exif == last.in.image_bytes.exif
            turned == (last.out.image.rotation
                         - last.in.image_bytes.rotation) % 360
        IN  /\ exif = <<3>> => turned = 180
            /\ exif = <<6>> => turned = 270
            /\ exif = <<8>> => turned = 90
            /\ exif = None => turned = 0

\* C15: the confidence of every result of compare is 1 - distance clamped to
\* [0,1]: 0 <= confidence <= 1 for every distance >= 0, distances above 1
\* included.
C15_ConfidenceClamped ==
    last.op = "compare_faces" =>
        LET d == last.out.distance
        IN  /\ 0 <= last.out.confidence /\ last.out.confidence <= 100
            /\ last.out.confidence = (IF d >= 100 THEN 0 ELSE 100 - d)

\* C16: for every encoding e and every tolerance >= 0, 0 included,
\* compare(e, e, tolerance) is a match at distance 0.
C16_IdentityMatches ==
    (last.op = "compare_faces" /\ last.in.known = last.in.unknown) =>
        /\ last.out.match
        /\ last.out.distance = 0

C16_Witness ==
    /\ last.op = "compare_faces"
    /\ last.in.known = last.in.unknown
    /\ last.in.tolerance = <<0>>
    /\ last.out.match

\* C17: compare(a, b, tolerance) and compare(b, a, tolerance) return the same
\* distance, and with it the same match flag and confidence.
C17_CompareSymmetric ==
    last.op = "compare_faces" =>
        LET swapped == compare_faces(last.in.unknown, last.in.known,
                                     last.in.tolerance)
        IN  /\ last.out.distance = swapped.distance
            /\ last.out.match = swapped.match
            /\ last.out.confidence = swapped.confidence

C17_Witness ==
    /\ last.op = "compare_faces"
    /\ last.in.known = <<30>>
    /\ last.in.unknown = <<110>>
    /\ last.out.distance = 80

\* C18: the eye check runs exactly when a face location is given to the
\* liveness evaluation: 2 checks are run (blur, colour) without one and 3 with
\* one, and the breakdown has an eye entry only with one.
C18_EyeCheckIffFaceLocation ==
    (last.op = "verify" /\ last.out.error = None) =>
        LET r == last.out
        IN  /\ last.in.face_location = None =>
                 /\ r.confidence.den = 2
                 /\ DOMAIN r.checks = {"blur", "color_distribution"}
            /\ last.in.face_location # None =>
                 /\ r.confidence.den = 3
                 /\ DOMAIN r.checks =
                       {"blur", "color_distribution", "eyes_detected"}

\* Blur 50 under threshold 100, skin ratio 0.30, no face location: 1 of 2
C18_Witness ==
    /\ last.op = "verify"
    /\ last.in.face_location = None
    /\ last.in.image.blur = 50 /\ last.in.image.skin = 30
    /\ last.in.image.exc = "none"
    /\ last.out.confidence = [num |-> 1, den |-> 2]
    /\ ~last.out.liveness_verified

\* C19: when the eye cascade is unavailable the eye check does not abort the
\* liveness evaluation: it is counted as run and as passed, and the blur and
\* colour checks decide the rest of the result.
C19_CascadeUnavailablePasses ==
    (/\ last.op = "verify"
     /\ last.in.image.exc = "cascade"
     /\ last.in.face_location # None) =>
        LET r == last.out
            blur_ok == last.in.image.blur > BlurThreshold
            color_ok == SkinLow < last.in.image.skin
                        /\ last.in.image.skin < SkinHigh
        IN  /\ ~r.raised /\ r.error = None
            /\ r.checks["eyes_detected"].passed
            /\ r.confidence.den = 3
            /\ r.confidence.num = 1 + (IF blur_ok THEN 1 ELSE 0)
                                    + (IF color_ok THEN 1 ELSE 0)
            /\ r.liveness_verified <=> (blur_ok /\ color_ok)

\* No eye region would be found, the cascade is unavailable, blur fails
C19_Witness ==
    /\ last.op = "verify"
    /\ last.in.image.exc = "cascade"
    /\ last.in.face_location # None
    /\ last.in.image.eyes = 0
    /\ last.in.image.blur = 50 /\ last.in.image.skin = 30
    /\ last.out.confidence = [num |-> 2, den |-> 3]
    /\ ~last.out.liveness_verified

\* C20: the blur check passes exactly when the metric is strictly above the
\* threshold (100 by default): a metric equal to the threshold fails, and so
\* does 50 under 100.
C20_BlurStrictlyAbove ==
    /\ last.op = "check_blur" =>
          (last.out.passed <=> last.in.image.blur > last.in.threshold)
    /\ (last.op = "verify" /\ last.out.error = None) =>
          (last.out.checks["blur"].passed <=> last.in.image.blur > 100)

C20_Witness ==
    /\ last.op = "check_blur"
    /\ last.in.threshold = 100
    /\ last.in.image.blur = 100
    /\ ~last.out.passed

\* C21: the skin-tone check passes exactly when the fraction of skin pixels
\* is strictly inside (0.15, 0.60): 0.15 and 0.60 fail, and so does every
\* fraction outside the band.
C21_SkinBandExclusive ==
    /\ last.op = "check_color_distribution" =>
          (last.out.passed <=>
              (15 < last.in.image.skin /\ last.in.image.skin < 60))
    /\ (last.op = "verify" /\ last.out.error = None) =>
          (last.out.checks["color_distribution"].passed <=>
              (15 < last.in.image.skin /\ last.in.image.skin < 60))

C21_Witness ==
    /\ last.op = "check_color_distribution"
    /\ last.in.image.skin = 60
    /\ ~last.out.passed

\* C26: with 2 or 3 checks run, the liveness evaluation is verified exactly
\* when every check that was run passed; one failed check (1/2 or 2/3) gives
\* verified = false.
C26_VerifiedIffAllPassed ==
    (last.op = "verify" /\ last.out.error = None) =>
        LET r == last.out
        IN  /\ r.confidence.den \in {2, 3}
            /\ r.liveness_verified <=>
                  \A k \in DOMAIN r.checks : r.checks[k].passed
            /\ r.confidence.num = r.confidence.den - 1 => ~r.liveness_verified

\* Two checks run, the colour check alone fails
C26_Witness ==
    /\ last.op = "verify"
    /\ last.in.face_location = None
    /\ last.out.error = None
    /\ last.out.checks["blur"].passed
    /\ ~last.out.checks["color_distribution"].passed
    /\ last.out.confidence = [num |-> 1, den |-> 2]
    /\ ~last.out.liveness_verified

(***************************************************************************)
(* Request handlers (face/routes.py, auth/routes.py, attendance/routes.py) *)
(*                                                                         *)
(* A handler that ends in db.session.commit() of a row it decided on       *)
(* earlier is two steps: the step that reads the database and decides, and *)
(* the commit.  Requests are served concurrently, so steps of other        *)
(* requests may fall between the two.  A request that is rejected changes  *)
(* nothing; what it answers is the value of enroll_checks or               *)
(* recognize_checks on the database it read.                               *)
(***************************************************************************)
\* Encodings of the faces in enrollment photos and in recognition photos
EnrollEncodings == {<<0>>, <<30>>}
ProbeEncodings == {<<0>>, <<30>>, <<50>>, <<110>>}

OneFace(box, enc) == [GoodImage EXCEPT !.faces = <<[box |-> box, enc |-> enc]>>]

\* Uploads that fail before any face is looked for
BadUploads ==
    {[GoodImage EXCEPT !.len = 0],
     [GoodImage EXCEPT !.decodable = FALSE],
     [GoodImage EXCEPT !.jpeg_len = MaxBytes + 1],
     [GoodImage EXCEPT !.len = MaxBytes + 1, !.decodable = FALSE],
     [GoodImage EXCEPT !.len = MaxBytes + 1]}

\* No face, two faces, a face of each size, an encoder that gives nothing, and
\* one face with each outcome of the liveness checks
EnrollImages ==
    BadUploads
    \cup {GoodImage}
    \cup {[GoodImage EXCEPT !.faces = <<[box |-> b, enc |-> e],
                                        [box |-> GoodBox, enc |-> <<30>>]>>] :
            b \in {GoodBox, <<10, 89, 160, 10>>}, e \in EnrollEncodings}
    \cup {OneFace(b, <<0>>) : b \in {<<10, 89, 160, 10>>, <<10, 160, 89, 10>>,
                                     <<10, 90, 90, 10>>}}
    \cup {OneFace(GoodBox, e) : e \in EnrollEncodings}
    \cup {[OneFace(GoodBox, <<0>>) EXCEPT !.encoder_ok = FALSE]}
    \cup {[OneFace(GoodBox, <<0>>) EXCEPT !.blur = 50],
          [OneFace(GoodBox, <<0>>) EXCEPT !.skin = 70],
          [OneFace(GoodBox, <<0>>) EXCEPT !.eyes = 1],
          [OneFace(GoodBox, <<0>>) EXCEPT !.exc = "blur"],
          [OneFace(GoodBox, <<0>>) EXCEPT !.exc = "crop"],
          [OneFace(GoodBox, <<0>>) EXCEPT !.exc = "cascade", !.eyes = 1]}

RecognizeImages ==
    BadUploads
    \cup {GoodImage}
    \cup {OneFace(GoodBox, e) : e \in ProbeEncodings}
    \cup {[GoodImage EXCEPT !.faces = <<[box |-> GoodBox, enc |-> e],
                                        [box |-> GoodBox, enc |-> <<30>>]>>] :
            e \in ProbeEncodings}
    \cup {[OneFace(GoodBox, <<0>>) EXCEPT !.encoder_ok = FALSE]}

\* Requests: a request without a photo or without a unit code is rejected
\* before anything else of it is read
EnrollRequests ==
    {[has_photo |-> FALSE, file |-> GoodImage]}
    \cup {[has_photo |-> TRUE, file |-> f] : f \in EnrollImages}

RecognizeRequests ==
    {[has_photo |-> FALSE, unit_code |-> None, file |-> GoodImage],
     [has_photo |-> TRUE, unit_code |-> None, file |-> GoodImage]}
    \cup {[has_photo |-> TRUE, unit_code |-> <<c>>, file |-> f] :
            c \in UnitCodes, f \in RecognizeImages}

\* img.save(output, format='JPEG', quality=85): the bytes the handlers go on with
reencode(file) ==
    [file EXCEPT !.len = file.jpeg_len, !.exif = None, !.decodable = TRUE]

Response(status, message) ==
    [status |-> status, message |-> message, audit |-> None,
     encoding |-> None, best_match |-> None, best_confidence |-> 0]

\* enroll_face up to the point where the encoding is stored (lines 25-103)
enroll_checks(user_consent_given, has_photo, file) ==
    IF ~user_consent_given THEN Response(403, "Biometric consent required")
    ELSE IF ~has_photo THEN Response(400, "No photo uploaded")
    ELSE IF file.len = 0 THEN Response(400, "Empty image file")
    ELSE IF ~file.decodable THEN Response(400, "Invalid image file")
    ELSE
    LET image_bytes == reencode(file)
        max_size == MAX_IMAGE_SIZE_MB * 1024 * 1024
    IN  IF image_bytes.len > max_size
        THEN Response(400, "Image too large. Max 5MB allowed")
        ELSE
        LET pre == preprocess_image(image_bytes, 5)
        IN  IF pre.error # None THEN Response(400, pre.error[1])
            ELSE
            LET quality == validate_image_quality(pre.image, MinFaceSize)
            IN  IF ~quality.valid THEN Response(422, quality.error)
                ELSE
                LET encoding == encode_face(pre.image, quality.face_location)
                IN  IF encoding = None
                    THEN Response(422, "Could not encode face")
                    ELSE
                    LET liveness_result ==
                            verify(image_bytes, quality.face_location)
                    IN  IF ~liveness_result.liveness_verified
                        THEN IF liveness_result.details = None
                             \* liveness_result['details']: KeyError, caught at line 128
                             THEN Response(500, "Enrollment failed")
                             ELSE [Response(422, "Liveness verification failed")
                                     EXCEPT !.audit = <<"face_enroll_failed">>]
                        ELSE [Response(201, "Face enrolled successfully")
                                EXCEPT !.audit = <<"face_enrolled">>,
                                       !.encoding = encoding]

\* enroll_face, lines 25-107: the checks, and the new encoding set on
\* current_user in this request's session
EnrollBegin(u) ==
    \E request \in EnrollRequests :
        LET r == enroll_checks(consent_given[u], request.has_photo, request.file)
        IN  /\ IF r.status = 201
               THEN /\ Cardinality(inflight) < MaxInflight
                    /\ inflight' = inflight \cup
                          {[kind |-> "enroll", user |-> u,
                            encoding |-> r.encoding]}
               ELSE inflight' = inflight
            /\ UNCHANGED <<consent_given, face_encoding, face_enrolled_at,
                           is_active, courses, attendance, today, last>>

\* enroll_face, line 108: db.session.commit() writes the columns this session
\* changed (face_encoding, face_enrolled_at) and no other
EnrollCommit ==
    \E q \in inflight :
        /\ q.kind = "enroll"
        /\ face_encoding' = [face_encoding EXCEPT ![q.user] = q.encoding]
        /\ face_enrolled_at' = [face_enrolled_at EXCEPT ![q.user] = <<today>>]
        /\ inflight' = inflight \ {q}
        /\ UNCHANGED <<consent_given, is_active, courses, attendance, today,
                       last>>

\* manage_consent, PUT (lines 194-227); biometric_processing is the value of
\* that key in the JSON body (None when absent)
ManageConsent(u) ==
    \E biometric_processing \in {None, <<TRUE>>, <<FALSE>>} :
        /\ IF biometric_processing = <<FALSE>> /\ consent_given[u]
           THEN /\ consent_given' = [consent_given EXCEPT ![u] = FALSE]
                /\ face_encoding' = [face_encoding EXCEPT ![u] = None]
                /\ face_enrolled_at' = [face_enrolled_at EXCEPT ![u] = None]
           ELSE UNCHANGED <<consent_given, face_encoding, face_enrolled_at>>
        /\ UNCHANGED <<is_active, courses, attendance, inflight, today, last>>

\* The permutations of a finite set, as sequences
Orders(S) ==
    {f \in [1..Cardinality(S) -> S] : \A i, j \in 1..Cardinality(S) :
                                         f[i] = f[j] => i = j}

\* recognize_face, lines 186-196: the scan of the enrolled users in the order
\* the query returned them; acc is (best_match, best_confidence)
RECURSIVE best_match_scan_last_wins(_, _, _, _)
best_match_scan_last_wins(enrolled_users, encodings, unknown_encoding, acc) ==
    IF enrolled_users = << >> THEN acc
    ELSE
    LET user == Head(enrolled_users)
        result == compare_faces(encodings[user], unknown_encoding, None)
    IN  best_match_scan_last_wins(Tail(enrolled_users), encodings,
            unknown_encoding,
            IF result.match /\ result.confidence >= acc.best_confidence
            THEN [best_match |-> <<user>>, best_confidence |-> result.confidence]
            ELSE acc)

RECURSIVE best_match_scan(_, _, _, _)
best_match_scan(enrolled_users, encodings, unknown_encoding, acc) ==
    IF enrolled_users = << >> THEN acc
    ELSE
    LET user == Head(enrolled_users)
        result == compare_faces(encodings[user], unknown_encoding, None)
    IN  best_match_scan(Tail(enrolled_users), encodings, unknown_encoding,
            IF result.match /\ result.confidence > acc.best_confidence
            THEN [best_match |-> <<user>>, best_confidence |-> result.confidence]
            ELSE acc)

EnrolledUsers_any_consent ==
    {u \in Users : face_encoding[u] # None /\ is_active[u]}

\* User.query.filter(face_encoding != None, is_active == True,
\*                   consent_given == True)
EnrolledUsers ==
    {u \in Users : face_encoding[u] # None /\ is_active[u] /\ consent_given[u]}

Existing_any_status(user_id, course_id) ==
    {i \in 1..Len(attendance) :
        /\ attendance[i].user_id = user_id
        /\ attendance[i].course_id = course_id
        /\ attendance[i].day = today}

\* Attendance.query.filter(user_id, course_id, date(timestamp) == today,
\*                         status != 'deleted').first()
Existing(user_id, course_id) ==
    {i \in 1..Len(attendance) :
        /\ attendance[i].user_id = user_id
        /\ attendance[i].course_id = course_id
        /\ attendance[i].day = today
        /\ attendance[i].status # "deleted"}

\* Rows of attendance, committed or about to be
RoomForRecord ==
    Len(attendance) + Cardinality({q \in inflight : q.kind = "attendance"})
        < MaxRecords

recognize_checks_raises(has_photo, unit_code, file, enrolled_users, encodings) ==
    IF ~has_photo THEN Response(400, "No photo provided")
    ELSE IF unit_code = None THEN Response(400, "Unit code or course code required")
    ELSE IF file.len = 0 THEN Response(400, "Empty image file")
    ELSE IF ~file.decodable THEN Response(400, "Invalid image")
    ELSE
    LET image_bytes == reencode(file)
        pre == preprocess_image(image_bytes, 5)
    IN  IF pre.error # None THEN Response(400, pre.error[1])
        ELSE
        LET unknown_encoding == encode_face(pre.image, None)
        IN  IF unknown_encoding = None THEN Response(400, "No face detected")
            ELSE
            LET best == best_match_scan(enrolled_users, encodings,
                            unknown_encoding,
                            [best_match |-> None, best_confidence |-> 0])
                tolerance == FACE_TOLERANCE
            IN  IF best.best_match = None
                THEN Response(500, "Recognition failed")
                ELSE IF best.best_confidence >= tolerance
                THEN [Response(201, "Attendance marked")
                        EXCEPT !.audit = <<"attendance_marked">>,
                               !.best_match = best.best_match,
                               !.best_confidence = best.best_confidence]
                ELSE [Response(404, "Face not recognized. Please enroll first.")
                        EXCEPT !.audit = <<"face_recognition_failed">>,
                               !.best_match = best.best_match,
                               !.best_confidence = best.best_confidence]

\* recognize_face up to the decision on the match (lines 138-199)
recognize_checks(has_photo, unit_code, file, enrolled_users, encodings) ==
    IF ~has_photo THEN Response(400, "No photo provided")
    ELSE IF unit_code = None THEN Response(400, "Unit code or course code required")
    ELSE IF file.len = 0 THEN Response(400, "Empty image file")
    ELSE IF ~file.decodable THEN Response(400, "Invalid image")
    ELSE
    LET image_bytes == reencode(file)
        pre == preprocess_image(image_bytes, 5)
    IN  IF pre.error # None THEN Response(400, pre.error[1])
        ELSE
        LET unknown_encoding == encode_face(pre.image, None)
        IN  IF unknown_encoding = None THEN Response(400, "No face detected")
            ELSE
            LET best == best_match_scan(enrolled_users, encodings,
                            unknown_encoding,
                            [best_match |-> None, best_confidence |-> 0])
                tolerance == FACE_TOLERANCE
            IN  IF best.best_match # None /\ best.best_confidence >= tolerance
                THEN [Response(201, "Attendance marked")
                        EXCEPT !.audit = <<"attendance_marked">>,
                               !.best_match = best.best_match,
                               !.best_confidence = best.best_confidence]
                ELSE [Response(404, "Face not recognized. Please enroll first.")
                        EXCEPT !.audit = <<"face_recognition_failed">>,
                               !.best_match = best.best_match,
                               !.best_confidence = best.best_confidence]

\* What a request did before it created its attendance record: the faces of
\* the photo it was sent, the order in which it read the enrolled users,
\* whether validate_image_quality accepted the photo, and the result of its
\* liveness evaluation (None when it ran none)
Upstream(via, faces, enrolled_users, validated, liveness) ==
    [via |-> via, faces |-> faces, enrolled_users |-> enrolled_users,
     validated |-> validated, liveness |-> liveness]

\* recognize_face, lines 138-249: everything before the commit of the record.
\* Neither validate_image_quality nor LivenessChecker.verify is called.
RecognizeBegin ==
    \E request \in RecognizeRequests, enrolled_users \in Orders(EnrolledUsers) :
        LET file == request.file
            unit_code == request.unit_code
            r == recognize_checks(request.has_photo, unit_code, file,
                                  enrolled_users, face_encoding)
        IN  /\ IF r.status = 201
               THEN /\ courses' = courses \cup {unit_code[1]}
                    /\ IF Existing(r.best_match[1], unit_code[1]) # {}
                       THEN inflight' = inflight
                       ELSE /\ RoomForRecord
                            /\ Cardinality(inflight) < MaxInflight
                            /\ inflight' = inflight \cup
                                 {[kind |-> "attendance",
                                   record |->
                                     [user_id |-> r.best_match[1],
                                      course_id |-> unit_code[1],
                                      day |-> today,
                                      confidence_score |-> r.best_confidence,
                                      liveness_verified |-> TRUE,
                                      status |-> "present"],
                                   upstream |->
                                     Upstream("recognize_face",
                                        [i \in 1..Len(file.faces) |->
                                            file.faces[i].enc],
                                        enrolled_users, FALSE, None)]}
               ELSE UNCHANGED <<courses, inflight>>
            /\ UNCHANGED <<consent_given, face_encoding, face_enrolled_at,
                           is_active, attendance, today, last>>

\* Requests of mark that have passed the "already marked today" check and
\* have not committed; mark and recognize_face are served independently of
\* each other, up to MaxInflight requests of mark at a time
PendingMarks ==
    {q \in inflight : q.kind = "attendance" /\ q.upstream.via = "mark"}

\* mark, lines 95-155: everything before the commit of the record; nothing of
\* the face pipeline runs here, the flags come from the request body
MarkBegin(u) ==
    \E unit_code \in {None} \cup {<<c>> : c \in UnitCodes},
       liveness_verified \in BOOLEAN :
        /\ IF unit_code = None
           THEN UNCHANGED <<courses, inflight>>
           ELSE /\ courses' = courses \cup {unit_code[1]}
                /\ IF Existing(u, unit_code[1]) # {}
                   THEN inflight' = inflight
                   ELSE /\ RoomForRecord
                        /\ Cardinality(PendingMarks) < MaxInflight
                        /\ inflight' = inflight \cup
                             {[kind |-> "attendance",
                               record |->
                                 [user_id |-> u,
                                  course_id |-> unit_code[1],
                                  day |-> today,
                                  confidence_score |-> DefaultConfidence,
                                  liveness_verified |-> liveness_verified,
                                  status |-> "present"],
                               upstream |->
                                 Upstream("mark", << >>, << >>, FALSE, None)]}
        /\ UNCHANGED <<consent_given, face_encoding, face_enrolled_at,
                       is_active, attendance, today, last>>

\* db.session.add(record); db.session.commit()  (face/routes.py 249-250,
\* attendance/routes.py 155-156)
AttendanceCommit ==
    \E q \in inflight :
        /\ q.kind = "attendance"
        /\ attendance' = Append(attendance, q.record)
        /\ inflight' = inflight \ {q}
        /\ UNCHANGED <<consent_given, face_encoding, face_enrolled_at,
                       is_active, courses, today, last>>

\* delete_record, lines 262-294: a soft delete, by an instructor or an admin
DeleteRecord ==
    \E attendance_id \in 1..Len(attendance),
       role \in {"student", "instructor", "admin"} :
        /\ IF role \notin {"admin", "instructor"}
           THEN UNCHANGED attendance
           ELSE attendance' =
                  [attendance EXCEPT ![attendance_id].status = "deleted"]
        /\ UNCHANGED <<consent_given, face_encoding, face_enrolled_at,
                       is_active, courses, inflight, today, last>>

\* The calendar day changes
Tick ==
    /\ today < MaxDay
    /\ today' = today + 1
    /\ UNCHANGED <<consent_given, face_encoding, face_enrolled_at, is_active,
                   courses, attendance, inflight, last>>

(***************************************************************************)
(* Spec: the face handlers (enroll, consent, recognize) from the database  *)
(* after setup.  SpecAttendance: the attendance handlers (mark, recognize) *)
(* over the days, from a database in which both users are enrolled, a      *)
(* state Spec reaches.                                                     *)
(***************************************************************************)
Next ==
    \/ \E u \in Users : EnrollBegin(u)
    \/ EnrollCommit
    \/ \E u \in Users : ManageConsent(u)
    \/ RecognizeBegin
    \/ AttendanceCommit

Spec == Init /\ [][Next]_vars

InitAttendance ==
    /\ consent_given = [u \in Users |-> TRUE]
    /\ face_encoding = [u \in Users |-> IF u = 1 THEN <<0>> ELSE <<30>>]
    /\ face_enrolled_at = [u \in Users |-> <<0>>]
    /\ is_active = [u \in Users |-> TRUE]
    /\ courses = {"CS301"}
    /\ attendance = << >>
    /\ inflight = {}
    /\ today = 0
    /\ last = [op |-> "init", in |-> None, out |-> None]

AttendanceNext ==
    \/ RecognizeBegin
    \/ \E u \in Users : MarkBegin(u)
    \/ AttendanceCommit
    \/ DeleteRecord
    \/ Tick

SpecAttendance == InitAttendance /\ [][AttendanceNext]_vars

(***************************************************************************)
(* SpecServed: enroll and consent requests served one at a time, each run  *)
(* from its first line to its response with no other request in between.   *)
(* last holds the request just served: the user, the request, the user's   *)
(* stored encoding and enrollment time before it, and the response.        *)
(***************************************************************************)
EnrollFaceServed_keep_first(u) ==
    \E request \in EnrollRequests :
        LET r == enroll_checks(consent_given[u], request.has_photo, request.file)
        IN  /\ IF r.status = 201 /\ face_encoding[u] = None
               THEN /\ face_encoding' = [face_encoding EXCEPT ![u] = r.encoding]
                    /\ face_enrolled_at' =
                          [face_enrolled_at EXCEPT ![u] = <<today>>]
               ELSE UNCHANGED <<face_encoding, face_enrolled_at>>
            /\ last' = [op |-> "enroll_face",
                        in |-> [user |-> u, request |-> request,
                                face_encoding |-> face_encoding[u],
                                face_enrolled_at |-> face_enrolled_at[u]],
                        out |-> r]
            /\ UNCHANGED <<consent_given, is_active, courses, attendance,
                           inflight, today>>

EnrollFaceServed_store_early(u) ==
    \E request \in EnrollRequests :
        LET r == enroll_checks(consent_given[u], request.has_photo, request.file)
        IN  /\ IF r.status = 201
               THEN /\ face_encoding' = [face_encoding EXCEPT ![u] = r.encoding]
                    /\ face_enrolled_at' =
                          [face_enrolled_at EXCEPT ![u] = <<today>>]
               ELSE IF r.message = "Liveness verification failed"
               THEN /\ face_encoding' =
                          [face_encoding EXCEPT ![u] = request.file.faces[1].enc]
                    /\ face_enrolled_at' =
                          [face_enrolled_at EXCEPT ![u] = <<today>>]
               ELSE UNCHANGED <<face_encoding, face_enrolled_at>>
            /\ last' = [op |-> "enroll_face",
                        in |-> [user |-> u, request |-> request,
                                face_encoding |-> face_encoding[u],
                                face_enrolled_at |-> face_enrolled_at[u]],
                        out |-> r]
            /\ UNCHANGED <<consent_given, is_active, courses, attendance,
                           inflight, today>>

\* enroll_face, lines 23-131, run to completion: the checks, and on success
\* the assignments of lines 106-107 and the commit of line 108
EnrollFaceServed(u) ==
    \E request \in EnrollRequests :
        LET r == enroll_checks(consent_given[u], request.has_photo, request.file)
        IN  /\ IF r.status = 201
               THEN /\ face_encoding' = [face_encoding EXCEPT ![u] = r.encoding]
                    /\ face_enrolled_at' =
                          [face_enrolled_at EXCEPT ![u] = <<today>>]
               ELSE UNCHANGED <<face_encoding, face_enrolled_at>>
            /\ last' = [op |-> "enroll_face",
                        in |-> [user |-> u, request |-> request,
                                face_encoding |-> face_encoding[u],
                                face_enrolled_at |-> face_enrolled_at[u]],
                        out |-> r]
            /\ UNCHANGED <<consent_given, is_active, courses, attendance,
                           inflight, today>>

\* manage_consent, PUT (lines 194-227), run to completion
ManageConsentServed(u) ==
    \E biometric_processing \in {None, <<TRUE>>, <<FALSE>>} :
        /\ IF biometric_processing = <<FALSE>> /\ consent_given[u]
           THEN /\ consent_given' = [consent_given EXCEPT ![u] = FALSE]
                /\ face_encoding' = [face_encoding EXCEPT ![u] = None]
                /\ face_enrolled_at' = [face_enrolled_at EXCEPT ![u] = None]
           ELSE UNCHANGED <<consent_given, face_encoding, face_enrolled_at>>
        /\ last' = [op |-> "manage_consent",
                    in |-> [user |-> u,
                            biometric_processing |-> biometric_processing,
                            face_encoding |-> face_encoding[u],
                            face_enrolled_at |-> face_enrolled_at[u]],
                    out |-> consent_given'[u]]
        /\ UNCHANGED <<is_active, courses, attendance, inflight, today>>

ServedNext ==
    \/ \E u \in Users : EnrollFaceServed(u)
    \/ \E u \in Users : ManageConsentServed(u)

SpecServed == Init /\ [][ServedNext]_vars

(***************************************************************************)
(* Properties of the face handlers (Spec)                                  *)
(***************************************************************************)

\* What recognize_face answers to a request that reads the enrolled users in
\* the given order, on the present database
Recognized(request, enrolled_users) ==
    recognize_checks(request.has_photo, request.unit_code, request.file,
                     enrolled_users, face_encoding)

\* The encoding recognize_face matches: that of the first face of the photo
Submitted(request) == request.file.faces[1].enc

\* C1: an attendance record is created with liveness_verified = true only by
\* a request in which, upstream of the match, single-face detection succeeded
\* and a liveness evaluation returned verified.
C1_MatchOnlyAfterLiveness ==
    \A q \in inflight :
        (q.kind = "attendance" /\ q.record.liveness_verified) =>
            /\ q.upstream.validated
            /\ q.upstream.liveness # None
            /\ q.upstream.liveness.liveness_verified

\* C2: recognition ends in "Face not recognized" exactly when no enrolled
\* candidate's distance to the submitted encoding is within the tolerance.
C2_NotRecognizedIffNoneWithinTolerance ==
    \A request \in RecognizeRequests, enrolled_users \in Orders(EnrolledUsers) :
        LET r == Recognized(request, enrolled_users)
        IN  r.status \in {201, 404} =>
              ((r.status = 404) <=>
                 ~\E u \in EnrolledUsers :
                     face_distance(face_encoding[u], Submitted(request))
                        <= FACE_TOLERANCE)

\* C3: the candidate selected is the one with the highest confidence among
\* the enrolled candidates within tolerance, the first in the enumeration
\* order among those of equal confidence; none is selected when none matches.
C3_BestMatchFirstOfHighest ==
    \A request \in RecognizeRequests, enrolled_users \in Orders(EnrolledUsers) :
        LET r == Recognized(request, enrolled_users)
            d(i) == face_distance(face_encoding[enrolled_users[i]],
                                  Submitted(request))
            matching == {i \in 1..Len(enrolled_users) : d(i) <= FACE_TOLERANCE}
        IN  r.status \in {201, 404} =>
              /\ matching = {} => r.best_match = None
              /\ matching # {} =>
                   \E i \in matching :
                       /\ r.best_match = <<enrolled_users[i]>>
                       /\ r.best_confidence = 100 - d(i)
                       /\ \A j \in matching : d(i) <= d(j)
                       /\ \A j \in matching : d(j) = d(i) => i <= j

\* Both users are enrolled with the same encoding, and a request that read
\* them in the order 2, 1 and matched that encoding created a record for 2.
C3_Witness ==
    /\ EnrolledUsers = Users
    /\ face_encoding[1] = face_encoding[2]
    /\ \E q \in inflight :
          /\ q.kind = "attendance"
          /\ q.upstream.via = "recognize_face"
          /\ q.upstream.enrolled_users = <<2, 1>>
          /\ q.upstream.faces = <<face_encoding[1]>>
          /\ q.record.user_id = 2

\* C5: a user whose consent_given is false has no face encoding and no
\* enrollment time, under any interleaving of enroll and withdrawal requests.
C5_WithdrawnHasNoEncoding ==
    \A u \in Users :
        ~consent_given[u] => face_encoding[u] = None /\ face_enrolled_at[u] = None

\* C10: a photo in which the detector finds no face or more than one face is
\* rejected by enroll (no encoding is stored) and by recognize (no candidate
\* is matched, no attendance record is created).
C10_ExactlyOneFaceRequired ==
    /\ \A u \in Users, request \in EnrollRequests :
          Len(request.file.faces) # 1 =>
              enroll_checks(consent_given[u], request.has_photo,
                            request.file).status # 201
    /\ \A request \in RecognizeRequests, enrolled_users \in Orders(EnrolledUsers) :
          Len(request.file.faces) # 1 =>
              /\ Recognized(request, enrolled_users).status \notin {200, 201}
              /\ Recognized(request, enrolled_users).best_match = None
    /\ \A q \in inflight :
          (q.kind = "attendance" /\ q.upstream.via = "recognize_face") =>
              Len(q.upstream.faces) = 1
\* C13: validation of an upload is staged size, decode, face count, face
\* size, encode: the rejection enroll reports is that of the first stage in
\* this order that the upload fails, and the stages' messages are distinct.
C13_StagedValidation ==
    \A u \in Users, request \in EnrollRequests :
        LET file == request.file
            r == enroll_checks(consent_given[u], request.has_photo, file)
            first ==
                IF file.len > MaxBytes THEN "size"
                ELSE IF ~file.decodable THEN "decode"
                ELSE IF Len(file.faces) # 1 THEN "face count"
                ELSE IF \/ file.faces[1].box[2] - file.faces[1].box[4] < MinFaceSize
                        \/ file.faces[1].box[3] - file.faces[1].box[1] < MinFaceSize
                     THEN "face size"
                ELSE IF ~file.encoder_ok THEN "encode"
                ELSE "none"
            reported ==
                IF r.message \in {"Image too large",
                                  "Image too large. Max 5MB allowed"} THEN "size"
                ELSE IF r.message \in {"Invalid image file",
                                       "Image processing error"} THEN "decode"
                ELSE IF r.message \in {"No face detected",
                                       "Multiple faces detected"} THEN "face count"
                ELSE IF r.message = "Face too small" THEN "face size"
                ELSE IF r.message = "Could not encode face" THEN "encode"
                ELSE "other"
        IN  (/\ consent_given[u] /\ request.has_photo /\ file.len > 0
             /\ first # "none")
            => reported = first

\* C14: encode returns null when the encoder produces nothing, and a null
\* encoding is reported as an encoding failure: neither enroll nor recognize
\* answers "No face detected" for it.
C14_NullEncodingIsEncodingFailed ==
    /\ \A u \in Users, request \in EnrollRequests :
          LET file == request.file
              pre == preprocess_image(reencode(file), 5)
              quality == validate_image_quality(pre.image, MinFaceSize)
          IN  (/\ consent_given[u] /\ request.has_photo
               /\ file.len > 0 /\ file.decodable
               /\ file.jpeg_len <= MaxBytes /\ pre.error = None
               /\ quality.valid
               /\ encode_face(pre.image, quality.face_location) = None)
              => enroll_checks(consent_given[u], request.has_photo,
                               file).message = "Could not encode face"
    /\ \A request \in RecognizeRequests, enrolled_users \in Orders(EnrolledUsers) :
          LET file == request.file
              pre == preprocess_image(reencode(file), 5)
          IN  (/\ request.has_photo /\ request.unit_code # None
               /\ file.len > 0 /\ file.decodable /\ pre.error = None
               /\ encode_face(pre.image, None) = None)
              => Recognized(request, enrolled_users).message
                    # "No face detected"
\* C22: when no enrolled candidate is within tolerance of the submitted face,
\* the enrolled set being empty included, recognize ends in the "not
\* recognized" answer (404, status failed, confidence 0), not in an internal
\* error, and creates no attendance record.
C22_NoMatchIsNormalOutcome ==
    /\ \A request \in RecognizeRequests, enrolled_users \in Orders(EnrolledUsers) :
          LET file == request.file
              pre == preprocess_image(reencode(file), 5)
              r == Recognized(request, enrolled_users)
          IN  (/\ request.has_photo /\ request.unit_code # None
               /\ file.len > 0 /\ file.decodable /\ pre.error = None
               /\ encode_face(pre.image, None) # None
               /\ \A u \in EnrolledUsers :
                     face_distance(face_encoding[u], Submitted(request))
                        > FACE_TOLERANCE)
              => /\ r.status = 404
                 /\ r.message = "Face not recognized. Please enroll first."
                 /\ r.best_match = None
                 /\ r.best_confidence = 0
    /\ \A q \in inflight :
          (q.kind = "attendance" /\ q.upstream.via = "recognize_face") =>
              q.record.confidence_score >= 100 - FACE_TOLERANCE

\* Both users are enrolled and the submitted face is far from both
C22_Witness ==
    /\ EnrolledUsers = Users
    /\ face_encoding[1] = <<0>> /\ face_encoding[2] = <<30>>
    /\ \E request \in RecognizeRequests :
          /\ request.has_photo /\ request.unit_code = <<"CS301">>
          /\ request.file = OneFace(GoodBox, <<110>>)
          /\ Recognized(request, <<1, 2>>).status = 404
          /\ Recognized(request, <<1, 2>>).best_match = None

\* C23: two recognitions of the same image content under the same tolerance
\* and the same enrolled set select the same best candidate, in whatever order
\* the query returns the enrolled users, candidates of equal confidence
\* included.
C23_MatchIndependentOfOrder ==
    \A request \in RecognizeRequests :
        \A first_order \in Orders(EnrolledUsers),
           second_order \in Orders(EnrolledUsers) :
            Recognized(request, first_order).best_match
                = Recognized(request, second_order).best_match

\* C29: recognize selects, and creates a record for, only a user who has a
\* stored encoding, is active and has consent_given = true when the enrolled
\* set is read; a user whose withdrawal has committed is selected by no later
\* request.
C29_OnlyEligibleUsersMatched ==
    /\ \A request \in RecognizeRequests, enrolled_users \in Orders(EnrolledUsers) :
          LET r == Recognized(request, enrolled_users)
          IN  r.best_match # None =>
                /\ face_encoding[r.best_match[1]] # None
                /\ is_active[r.best_match[1]]
                /\ consent_given[r.best_match[1]]
    /\ \A q \in inflight :
          (q.kind = "attendance" /\ q.upstream.via = "recognize_face") =>
              \E i \in 1..Len(q.upstream.enrolled_users) :
                  q.upstream.enrolled_users[i] = q.record.user_id

\* User 2 has withdrawn consent yet has a stored encoding (see C5); a photo of
\* exactly that encoding was matched to user 1, the only user read.
C29_Witness ==
    /\ ~consent_given[2] /\ face_encoding[2] # None
    /\ consent_given[1] /\ face_encoding[1] # None
    /\ \E q \in inflight :
          /\ q.kind = "attendance"
          /\ q.upstream.via = "recognize_face"
          /\ q.upstream.enrolled_users = <<1>>
          /\ q.upstream.faces = <<face_encoding[2]>>
          /\ q.record.user_id = 1
(***************************************************************************)
(* Properties of enrollment, request by request (SpecServed)               *)
(***************************************************************************)

\* C24: a user has one stored encoding and re-enrollment overwrites it: after
\* a successful enroll request the stored encoding is the one derived from
\* that request's photo, and matching uses that encoding and no earlier one.
C24_ReenrollmentOverwrites ==
    (last.op = "enroll_face" /\ last.out.status = 201) =>
        LET u == last.in.user
        IN  /\ face_encoding[u] = last.in.request.file.faces[1].enc
            /\ face_encoding[u] = last.out.encoding
            /\ face_enrolled_at[u] = <<today>>
            /\ \A request \in RecognizeRequests,
                  enrolled_users \in Orders(EnrolledUsers) :
                  LET r == Recognized(request, enrolled_users)
                  IN  r.best_match = <<u>> =>
                        r.best_confidence =
                          100 - face_distance(last.out.encoding,
                                              Submitted(request))

\* A user enrolled with <<30>> has just enrolled again with <<0>>
C24_Witness ==
    /\ last.op = "enroll_face"
    /\ last.out.status = 201
    /\ last.in.face_encoding = <<30>>
    /\ last.out.encoding = <<0>>
    /\ face_encoding[last.in.user] = <<0>>

\* C27: whenever the liveness evaluation returns a deny result during
\* enrollment, from failed checks or as the result converted from an error,
\* enroll answers 422 "Liveness verification failed" and records a
\* face_enroll_failed audit entry; it never answers 500.
C27_LivenessDenyIs422 ==
    last.op = "enroll_face" =>
        LET file == last.in.request.file
            image_bytes == reencode(file)
            pre == preprocess_image(image_bytes, 5)
            quality == validate_image_quality(pre.image, MinFaceSize)
        IN  (/\ consent_given[last.in.user] /\ last.in.request.has_photo
             /\ file.len > 0 /\ file.decodable
             /\ image_bytes.len <= MaxBytes /\ pre.error = None
             /\ quality.valid
             /\ encode_face(pre.image, quality.face_location) # None
             /\ ~verify(image_bytes, quality.face_location).liveness_verified)
            => /\ last.out.status = 422
               /\ last.out.message = "Liveness verification failed"
               /\ last.out.audit = <<"face_enroll_failed">>

\* C28: an enroll request that is rejected, at whatever stage, leaves the
\* user's stored face_encoding and face_enrolled_at as they were before it.
C28_RejectedEnrollChangesNothing ==
    (last.op = "enroll_face" /\ last.out.status # 201) =>
        /\ face_encoding[last.in.user] = last.in.face_encoding
        /\ face_enrolled_at[last.in.user] = last.in.face_enrolled_at

\* A user enrolled with <<30>> was just denied by liveness on a photo of <<0>>
C28_Witness ==
    /\ last.op = "enroll_face"
    /\ last.out.status = 422
    /\ last.out.message = "Liveness verification failed"
    /\ last.in.request.file.faces[1].enc = <<0>>
    /\ last.in.face_encoding = <<30>>
    /\ face_encoding[last.in.user] = <<30>>
(***************************************************************************)
(* Properties of the attendance handlers (SpecAttendance)                  *)
(***************************************************************************)

\* C25: for every user, course and calendar day there is at most one
\* attendance record whose status is not 'deleted', under any interleaving of
\* mark and recognize requests, two requests that both pass the "already
\* marked today" check before either commits included.
C25_AtMostOneRecordPerDay ==
    \A u \in Users, c \in UnitCodes, d \in 0..MaxDay :
        Cardinality({i \in 1..Len(attendance) :
                        /\ attendance[i].user_id = u
                        /\ attendance[i].course_id = c
                        /\ attendance[i].day = d
                        /\ attendance[i].status # "deleted"}) <= 1

\* C30: deleting an attendance record is a soft delete: the row stays, its
\* status becomes 'deleted' and never goes back to 'present', and it no longer
\* counts as a duplicate, so that a later request for the same user, course
\* and day finds no existing record and creates a new one.
C30_SoftDelete ==
    /\ [][/\ Len(attendance') >= Len(attendance)
          /\ \A i \in 1..Len(attendance) :
                /\ [attendance'[i] EXCEPT !.status = attendance[i].status]
                      = attendance[i]
                /\ attendance[i].status = "deleted" =>
                      attendance'[i].status = "deleted"]_vars
    /\ [](\A u \in Users, c \in UnitCodes :
            (\A i \in 1..Len(attendance) :
                (/\ attendance[i].user_id = u
                 /\ attendance[i].course_id = c
                 /\ attendance[i].day = today)
                => attendance[i].status = "deleted")
            => Existing(u, c) = {})

\* A deleted record, and after it a present one of the same user, course and
\* day, both created by recognize_face (whose requests do not overlap here)
C30_Witness ==
    \E i, j \in 1..Len(attendance) :
        /\ i < j
        /\ attendance[i].confidence_score = 100
        /\ attendance[j].confidence_score = 100
        /\ attendance[i].status = "deleted"
        /\ attendance[j].status = "present"
        /\ attendance[j].user_id = attendance[i].user_id
        /\ attendance[j].course_id = attendance[i].course_id
        /\ attendance[j].day = attendance[i].day

====
